---- MODULE Spec2Model ----
(***************************************************************************)
(* Smart Kitchen backend (src/backend/fastapi_app.py): the DuckDB tables   *)
(* users, reservations, kitchens and appliances, the in-process token map, *)
(* and the request handlers that read and write them.                      *)
(*                                                                         *)
(* Every handler is an `async def` without a single await between its      *)
(* first and its last database statement (only esp_check awaits, once,     *)
(* before it touches the database), and uvicorn.run serves them on one     *)
(* event loop: a handler body runs to completion before another one        *)
(* starts.  Each handler is therefore one atomic action; concurrent        *)
(* requests are handled one after the other, in either order.              *)
(*                                                                         *)
(* TEXT columns and query parameters are sequences of character codes:     *)
(* DuckDB compares TEXT by code point, left to right, and the reservation  *)
(* id is built by concatenation.                                           *)
(***************************************************************************)
EXTENDS Integers, Sequences, FiniteSets, Bags, TLC

VARIABLES
    tokens,        \* tokens = {}: token -> isic_number
    users,         \* table users, keyed by isic_number
    reservations,  \* table reservations: a set of rows, id is the primary key
    kitchens,      \* table kitchens: a set of rows
    appliances,    \* table appliances: a set of rows
    request,       \* the request handled last
    response,      \* what the handler answered to it
    before         \* the reservations table as that request found it

vars == <<tokens, users, reservations, kitchens, appliances, request, response,
          before>>

(***************************************************************************)
(* Bounds of the model.                                                    *)
(***************************************************************************)
MaxReservations == 2   \* rows the reservations table may hold
MaxTokens == 2         \* tokens generate_token may issue

(***************************************************************************)
(* Text.                                                                   *)
(***************************************************************************)
None == <<>>           \* Python None / SQL NULL (falsy, like the empty string)

Digit(d) == 48 + d     \* '0' .. '9'
Colon == 58            \* ':'
Hyphen == 45           \* '-'
Underscore == 95       \* '_'
LetterS == 83          \* 'S'

TwoDigits(n) == <<Digit(n \div 10), Digit(n % 10)>>

\* TEXT comparison of DuckDB (binary collation): a < b
RECURSIVE TextLess(_, _)
TextLess(a, b) ==
    IF b = <<>> THEN FALSE
    ELSE IF a = <<>> THEN TRUE
    ELSE IF Head(a) # Head(b) THEN Head(a) < Head(b)
    ELSE TextLess(Tail(a), Tail(b))

TextLeq(a, b) == a = b \/ TextLess(a, b)

\* "%H:%M" and "%Y-%m-%d"
HourMinute(h, m) == TwoDigits(h) \o <<Colon>> \o TwoDigits(m)
YearMonthDay(y, m, d) ==
    TwoDigits(y \div 100) \o TwoDigits(y % 100) \o <<Hyphen>>
        \o TwoDigits(m) \o <<Hyphen>> \o TwoDigits(d)


(***************************************************************************)
(* Rows and responses.                                                     *)
(***************************************************************************)
\* raise HTTPException(status_code=..., detail=...)
HTTPException(status_code, detail) ==
    [status_code |-> status_code, detail |-> detail, body |-> None]

\* a handler that returns its value
Ok(body) == [status_code |-> 200, detail |-> "", body |-> body]

\* an exception no handler catches (a DuckDB constraint error): 500
InternalServerError ==
    [status_code |-> 500, detail |-> "Internal Server Error", body |-> None]

\* INSERT OR IGNORE INTO table ...: the primary key id decides
InsertOrIgnore(table, row) ==
    IF \E r \in table : r.id = row.id THEN table ELSE table \cup {row}

(***************************************************************************)
(* init_db: the catalog the startup hook provisions.                       *)
(***************************************************************************)
Floors == 1..7

DefaultAppliances ==
    << <<"microwave", "Microwave 1">>,
       <<"microwave", "Microwave 2">>,
       <<"oven", "Oven">>,
       <<"stove_left", "Stove Left">>,
       <<"stove_right", "Stove Right">> >>

\* app_id = f'k{floor}-{app_type}{idx+1}', idx counted from 0
ApplianceId(floor, app_type, idx) ==
    "k" \o ToString(floor) \o "-" \o app_type \o ToString(idx + 1)

KitchenRow(floor) ==
    [id |-> floor, kitchen_number |-> 1, floor |-> floor,
     name |-> "Kitchen Floor " \o ToString(floor)]

ApplianceRow(floor, idx) ==
    [id |-> ApplianceId(floor, DefaultAppliances[idx + 1][1], idx),
     kitchen_id |-> floor,
     type |-> DefaultAppliances[idx + 1][1],
     name |-> DefaultAppliances[idx + 1][2]]

\* for idx, (app_type, app_name) in enumerate(appliances): INSERT OR IGNORE
RECURSIVE ProvisionAppliances(_, _, _)
ProvisionAppliances(table, floor, idx) ==
    IF idx >= Len(DefaultAppliances) THEN table
    ELSE ProvisionAppliances(InsertOrIgnore(table, ApplianceRow(floor, idx)),
                             floor, idx + 1)

\* for floor in range(1, 8): the kitchens table, then the appliances table
RECURSIVE ProvisionKitchens(_, _)
ProvisionKitchens(table, floor) ==
    IF floor \notin Floors THEN table
    ELSE ProvisionKitchens(InsertOrIgnore(table, KitchenRow(floor)), floor + 1)

RECURSIVE ProvisionFloors(_, _)
ProvisionFloors(table, floor) ==
    IF floor \notin Floors THEN table
    ELSE ProvisionFloors(ProvisionAppliances(table, floor, 0), floor + 1)

(***************************************************************************)
(* Values requests are made with.                                          *)
(***************************************************************************)
\* 'S' and ten digits
Isic(n) == <<LetterS>> \o [i \in 1..9 |-> Digit(0)] \o <<Digit(n)>>

Isics == {Isic(1), Isic(2)}
LoginIsics == Isics \cup {<<LetterS, Digit(1)>>}

ReqTokens == 1..MaxTokens
Today == YearMonthDay(2026, 11, 4)
ReqDates == {Today}
T0 == HourMinute(10, 0)
T1 == HourMinute(10, 1)
T2 == HourMinute(10, 2)
\* <<startTime, endTime>>: three proper intervals, an empty and a reversed one
ReqIntervals == {<<T0, T1>>, <<T1, T2>>, <<T0, T2>>, <<T1, T1>>, <<T2, T1>>}
\* <<kitchenId, applianceId>>: the oven of kitchen 1 named with its own kitchen
\* and with another one, and an appliance init_db never provisions
Oven1 == ApplianceId(1, "oven", 2)
ReqTargets == {<<1, Oven1>>, <<2, Oven1>>, <<1, "k9-oven3">>}
\* an id no reservation has
UnknownId == <<Digit(0)>>

(***************************************************************************)
(* Sessions.                                                               *)
(***************************************************************************)
\* tokens.get(token)
verify_token(token) ==
    IF token \in DOMAIN tokens THEN tokens[token] ELSE None

\* secrets.token_urlsafe(32): 256 random bits, an opaque string that is taken
\* to differ from every token issued before; the n-th token issued is named n.
FreshToken == Cardinality(DOMAIN tokens) + 1

\* generate_token handing out one and the same token string every time
GenerateSameToken(token, isic) ==
    tokens' = [t \in DOMAIN tokens \cup {1} |-> IF t = 1 THEN isic ELSE tokens[t]]

\* tokens[token] = isic
generate_token(token, isic) ==
    tokens' = [t \in DOMAIN tokens \cup {token} |->
                  IF t = token THEN isic ELSE tokens[t]]

\* f"User {isic[-4:]}"
DefaultName(isic) ==
    <<85, 115, 101, 114, 32>>
        \o SubSeq(isic, IF Len(isic) > 4 THEN Len(isic) - 3 ELSE 1, Len(isic))

UserRows(isic) == {u \in users : u.isic_number = isic}

(***************************************************************************)
(* POST /login                                                             *)
(***************************************************************************)
login(isic) ==
    /\ request' = [op |-> "login", isic |-> isic]
    /\ before' = reservations
    /\ IF isic = <<>> \/ Head(isic) # LetterS \/ Len(isic) < 11
       THEN /\ response' = HTTPException(400, "Invalid ISIC format")
            /\ UNCHANGED <<tokens, users>>
       ELSE /\ FreshToken <= MaxTokens
            /\ users' =
                 IF UserRows(isic) # {} THEN users
                 ELSE users \cup {[isic_number |-> isic,
                                   name |-> DefaultName(isic),
                                   face_embedding |-> None,
                                   theme_palette |-> "pink",
                                   theme_dark_mode |-> FALSE]}
            /\ generate_token(FreshToken, isic)
            /\ response' = Ok([token |-> FreshToken, isic |-> isic])
    /\ UNCHANGED <<reservations, kitchens, appliances>>

(***************************************************************************)
(* POST /reserve                                                           *)
(***************************************************************************)
\* reservation_id = f"{isic}_{date}_{startTime}_{endTime}"
ReservationId(isic, date, startTime, endTime) ==
    isic \o <<Underscore>> \o date \o <<Underscore>> \o startTime
         \o <<Underscore>> \o endTime

\* SELECT COUNT(*) FROM reservations WHERE ... (lines 506-515)
Conflicts(date, startTime, endTime, kitchenId, applianceId) ==
    Cardinality({r \in reservations :
        /\ r.date = date
        /\ r.kitchen_id = kitchenId
        /\ r.appliance_id = applianceId
        /\ r.status = "confirmed"
        /\ \/ TextLeq(r.start_time, startTime) /\ TextLess(startTime, r.end_time)
           \/ TextLess(r.start_time, endTime) /\ TextLeq(endTime, r.end_time)
           \/ TextLeq(startTime, r.start_time) /\ TextLeq(r.end_time, endTime)})

\* SELECT type FROM appliances WHERE id = ?
ApplianceType(applianceId) == {a.type : a \in {x \in appliances : x.id = applianceId}}

\* the row of the INSERT; created_at (DEFAULT CURRENT_TIMESTAMP) is set once and
\* read by no handler, and is left out
ReservationRow(id, isic, date, startTime, endTime, kitchenId, applianceId, app_type) ==
    [id |-> id, isic_number |-> isic, date |-> date,
     start_time |-> startTime, end_time |-> endTime,
     kitchen_id |-> kitchenId, appliance_id |-> applianceId,
     appliance_type |-> app_type, status |-> "confirmed"]

\* INSERT OR REPLACE INTO reservations: a duplicate id overwrites the row
InsertOrReplaceReservation(row) ==
    /\ Cardinality(reservations) < MaxReservations
    /\ reservations' = {r \in reservations : r.id # row.id} \cup {row}
    /\ response' = Ok(row.id)

\* INSERT INTO a reservations table whose id is no key
InsertWithoutPrimaryKey(row) ==
    /\ Cardinality(reservations) < MaxReservations
    /\ reservations' = reservations \cup {row}
    /\ response' = Ok(row.id)

\* INSERT INTO reservations: id is the PRIMARY KEY, a duplicate raises
InsertReservation(row) ==
    IF \E r \in reservations : r.id = row.id
    THEN /\ response' = InternalServerError
         /\ UNCHANGED reservations
    ELSE /\ Cardinality(reservations) < MaxReservations
         /\ reservations' = reservations \cup {row}
         /\ response' = Ok(row.id)

\* create_reservation writing the row before it looks for a conflict
CreateInsertFirst(date, startTime, endTime, kitchenId, applianceId, token) ==
    LET isic == verify_token(token)
        reservation_id == ReservationId(isic, date, startTime, endTime)
        app_type == ApplianceType(applianceId)
        row == ReservationRow(reservation_id, isic, date, startTime, endTime,
                              kitchenId, applianceId,
                              IF app_type = {} THEN None
                              ELSE CHOOSE t \in app_type : TRUE)
    IN
    /\ request' = [op |-> "create_reservation", date |-> date,
                   startTime |-> startTime, endTime |-> endTime,
                   kitchenId |-> kitchenId, applianceId |-> applianceId,
                   token |-> token]
    /\ before' = reservations
    /\ IF isic = None
       THEN /\ response' = HTTPException(401, "Invalid token")
            /\ UNCHANGED reservations
       ELSE IF \E r \in reservations : r.id = row.id
       THEN /\ response' = InternalServerError
            /\ UNCHANGED reservations
       ELSE /\ Cardinality(reservations) < MaxReservations
            /\ reservations' = reservations \cup {row}
            /\ response' =
                 IF Conflicts(date, startTime, endTime, kitchenId, applianceId) > 0
                 THEN HTTPException(400, "Time slot already reserved")
                 ELSE IF app_type = {}
                 THEN HTTPException(400, "Invalid appliance")
                 ELSE Ok(row.id)
    /\ UNCHANGED <<tokens, users, kitchens, appliances>>

\* create_reservation without the test of verify_token's result
CreateWithoutTokenCheck(date, startTime, endTime, kitchenId, applianceId, token) ==
    LET isic == verify_token(token)
        reservation_id == ReservationId(isic, date, startTime, endTime)
        app_type == ApplianceType(applianceId)
    IN
    /\ request' = [op |-> "create_reservation", date |-> date,
                   startTime |-> startTime, endTime |-> endTime,
                   kitchenId |-> kitchenId, applianceId |-> applianceId,
                   token |-> token]
    /\ before' = reservations
    /\ IF Conflicts(date, startTime, endTime, kitchenId, applianceId) > 0
       THEN /\ response' = HTTPException(400, "Time slot already reserved")
            /\ UNCHANGED reservations
       ELSE IF app_type = {}
       THEN /\ response' = HTTPException(400, "Invalid appliance")
            /\ UNCHANGED reservations
       ELSE InsertReservation(
                ReservationRow(reservation_id, isic, date, startTime, endTime,
                               kitchenId, applianceId,
                               CHOOSE t \in app_type : TRUE))
    /\ UNCHANGED <<tokens, users, kitchens, appliances>>

create_reservation(date, startTime, endTime, kitchenId, applianceId, token) ==
    LET isic == verify_token(token)
        reservation_id == ReservationId(isic, date, startTime, endTime)
        app_type == ApplianceType(applianceId)
    IN
    /\ request' = [op |-> "create_reservation", date |-> date,
                   startTime |-> startTime, endTime |-> endTime,
                   kitchenId |-> kitchenId, applianceId |-> applianceId,
                   token |-> token]
    /\ before' = reservations
    /\ IF isic = None
       THEN /\ response' = HTTPException(401, "Invalid token")
            /\ UNCHANGED reservations
       ELSE IF Conflicts(date, startTime, endTime, kitchenId, applianceId) > 0
       THEN /\ response' = HTTPException(400, "Time slot already reserved")
            /\ UNCHANGED reservations
       ELSE IF app_type = {}
       THEN /\ response' = HTTPException(400, "Invalid appliance")
            /\ UNCHANGED reservations
       ELSE InsertReservation(
                ReservationRow(reservation_id, isic, date, startTime, endTime,
                               kitchenId, applianceId,
                               CHOOSE t \in app_type : TRUE))
    /\ UNCHANGED <<tokens, users, kitchens, appliances>>

(***************************************************************************)
(* DELETE /reservation/{reservation_id}                                    *)
(***************************************************************************)
\* UPDATE reservations SET status = 'cancelled' WHERE isic_number = (the owner
\* of the row with that id): every reservation of the owner is cancelled
SetOwnerCancelled(reservation_id) ==
    LET owners == {x.isic_number : x \in {y \in reservations : y.id = reservation_id}}
    IN {IF r.isic_number \in owners THEN [r EXCEPT !.status = "cancelled"] ELSE r :
           r \in reservations}

\* UPDATE reservations SET status = 'cancelled' WHERE id = ?
SetCancelled(reservation_id) ==
    {IF r.id = reservation_id THEN [r EXCEPT !.status = "cancelled"] ELSE r :
        r \in reservations}

\* cancel_reservation without the comparison owner[0] != isic
CancelWithoutOwnerCheck(reservation_id, token) ==
    LET isic == verify_token(token)
        owner == {r.isic_number : r \in {x \in reservations : x.id = reservation_id}}
    IN
    /\ request' = [op |-> "cancel_reservation",
                   reservation_id |-> reservation_id, token |-> token]
    /\ before' = reservations
    /\ IF isic = None
       THEN /\ response' = HTTPException(401, "Invalid token")
            /\ UNCHANGED reservations
       ELSE IF owner = {}
       THEN /\ response' = HTTPException(403, "Not your reservation")
            /\ UNCHANGED reservations
       ELSE /\ reservations' = SetCancelled(reservation_id)
            /\ response' = Ok("Reservation cancelled successfully")
    /\ UNCHANGED <<tokens, users, kitchens, appliances>>

\* cancel_reservation refusing a reservation that is not confirmed any more
CancelOnlyConfirmed(reservation_id, token) ==
    LET isic == verify_token(token)
        found == {x \in reservations : x.id = reservation_id}
        owner == {r.isic_number : r \in found}
    IN
    /\ request' = [op |-> "cancel_reservation",
                   reservation_id |-> reservation_id, token |-> token]
    /\ before' = reservations
    /\ IF isic = None
       THEN /\ response' = HTTPException(401, "Invalid token")
            /\ UNCHANGED reservations
       ELSE IF owner = {} \/ owner # {isic}
       THEN /\ response' = HTTPException(403, "Not your reservation")
            /\ UNCHANGED reservations
       ELSE IF \E r \in found : r.status # "confirmed"
       THEN /\ response' = HTTPException(400, "Reservation already cancelled")
            /\ UNCHANGED reservations
       ELSE /\ reservations' = SetCancelled(reservation_id)
            /\ response' = Ok("Reservation cancelled successfully")
    /\ UNCHANGED <<tokens, users, kitchens, appliances>>

cancel_reservation(reservation_id, token) ==
    LET isic == verify_token(token)
        owner == {r.isic_number : r \in {x \in reservations : x.id = reservation_id}}
    IN
    /\ request' = [op |-> "cancel_reservation",
                   reservation_id |-> reservation_id, token |-> token]
    /\ before' = reservations
    /\ IF isic = None
       THEN /\ response' = HTTPException(401, "Invalid token")
            /\ UNCHANGED reservations
       ELSE IF owner = {} \/ owner # {isic}
       THEN /\ response' = HTTPException(403, "Not your reservation")
            /\ UNCHANGED reservations
       ELSE /\ reservations' = SetCancelled(reservation_id)
            /\ response' = Ok("Reservation cancelled successfully")
    /\ UNCHANGED <<tokens, users, kitchens, appliances>>

(***************************************************************************)
(* Face embeddings.  extract_face_embedding is the external model: the     *)
(* handlers are given its result, a vector, or None when it raises.  The   *)
(* vectors are integer representatives of directions; json.dumps and       *)
(* json.loads return the list they were given.                             *)
(***************************************************************************)
Dot(a, b) == a[1] * b[1] + a[2] * b[2]

\* The float dot / (norm1 * norm2) is kept as the exact fraction <<n, d>>, d > 0,
\* of x |-> sgn(x) * x^2 applied to it, which keeps the order of similarities;
\* 0.0 when a norm is 0.
cosine_similarity(embedding1, embedding2) ==
    LET dot_product == Dot(embedding1, embedding2)
        norm1sq == Dot(embedding1, embedding1)
        norm2sq == Dot(embedding2, embedding2)
    IN IF norm1sq = 0 \/ norm2sq = 0 THEN <<0, 1>>
       ELSE <<(IF dot_product < 0 THEN -1 ELSE 1) * dot_product * dot_product,
              norm1sq * norm2sq>>

\* a float p/q, q > 0, under the same map
Similarity(p, q) == <<(IF p < 0 THEN -1 ELSE 1) * p * p, q * q>>

SimLess(x, y) == x[1] * y[2] < y[1] * x[2]

\* threshold=0.6
Threshold == Similarity(3, 5)

\* the loop of find_matching_user over rows[i..], rows = <<isic, embedding>> pairs
RECURSIVE BestMatch(_, _, _, _, _)
BestMatch(rows, i, embedding, best_match, best_similarity) ==
    IF i > Len(rows) THEN <<best_match, best_similarity>>
    ELSE LET similarity == cosine_similarity(embedding, rows[i][2])
         IN IF SimLess(best_similarity, similarity)
            THEN BestMatch(rows, i + 1, embedding, rows[i][1], similarity)
            ELSE BestMatch(rows, i + 1, embedding, best_match, best_similarity)

\* rows: the result of SELECT isic_number, face_embedding FROM users WHERE
\* face_embedding IS NOT NULL, in the order the database returns it
find_matching_user(rows, embedding, threshold) ==
    LET best == BestMatch(rows, 1, embedding, None, <<0, 1>>)
    IN IF ~SimLess(best[2], threshold) THEN best[1] ELSE None

\* The query has no ORDER BY: any order of the enrolled rows.
Gallery == {<<u.isic_number, u.face_embedding>> :
               u \in {x \in users : x.face_embedding # None}}

ScanOrders ==
    {rows \in [1..Cardinality(Gallery) -> Gallery] :
        \A i, j \in DOMAIN rows : i # j => rows[i] # rows[j]}

(***************************************************************************)
(* POST /face/enroll                                                       *)
(***************************************************************************)
\* enroll_face with one INSERT OR REPLACE INTO users (isic_number, name,
\* face_embedding) for both cases: the other columns take their defaults
EnrollReplacingRow(isic, embedding) ==
    /\ request' = [op |-> "enroll_face", isic |-> isic, embedding |-> embedding]
    /\ before' = reservations
    /\ IF embedding = None
       THEN /\ response' = HTTPException(400, "Face processing error")
            /\ UNCHANGED users
       ELSE /\ users' =
                 {u \in users : u.isic_number # isic}
                     \cup {[isic_number |-> isic,
                            name |-> DefaultName(isic),
                            face_embedding |-> embedding,
                            theme_palette |-> "pink",
                            theme_dark_mode |-> FALSE]}
            /\ response' = Ok([isic |-> isic, face_enrolled |-> TRUE])
    /\ UNCHANGED <<tokens, reservations, kitchens, appliances>>

enroll_face(isic, embedding) ==
    /\ request' = [op |-> "enroll_face", isic |-> isic, embedding |-> embedding]
    /\ before' = reservations
    /\ IF embedding = None
       THEN /\ response' = HTTPException(400, "Face processing error")
            /\ UNCHANGED users
       ELSE /\ users' =
                 IF UserRows(isic) # {}
                 THEN {IF u.isic_number = isic
                       THEN [u EXCEPT !.face_embedding = embedding] ELSE u :
                          u \in users}
                 ELSE users \cup {[isic_number |-> isic,
                                   name |-> DefaultName(isic),
                                   face_embedding |-> embedding,
                                   theme_palette |-> "pink",
                                   theme_dark_mode |-> FALSE]}
            /\ response' = Ok([isic |-> isic, face_enrolled |-> TRUE])
    /\ UNCHANGED <<tokens, reservations, kitchens, appliances>>

(***************************************************************************)
(* POST /esp/check                                                         *)
(***************************************************************************)
\* now.strftime("%Y-%m-%d") and now.strftime("%H:%M") of datetime.now()
StrfDate(now) == YearMonthDay(now.year, now.month, now.day)
StrfHourMinute(now) == HourMinute(now.hour, now.minute)

\* SELECT COUNT(*) FROM reservations WHERE ... (lines 660-667)
ActiveReservations(isic, date, time) ==
    Cardinality({r \in reservations :
        /\ r.isic_number = isic
        /\ r.date = date
        /\ TextLeq(r.start_time, time)
        /\ TextLeq(time, r.end_time)
        /\ r.status = "confirmed"})

esp_check(embedding, rows, now) ==
    LET matched_isic == find_matching_user(rows, embedding, Threshold)
    IN
    /\ request' = [op |-> "esp_check", embedding |-> embedding, rows |-> rows,
                   now |-> now]
    /\ before' = reservations
    /\ response' =
         IF embedding = None THEN HTTPException(400, "Face processing error")
         ELSE IF matched_isic = None THEN Ok([authorized |-> FALSE])
         ELSE IF ActiveReservations(matched_isic, StrfDate(now),
                                    StrfHourMinute(now)) > 0
         THEN Ok([authorized |-> TRUE])
         ELSE Ok([authorized |-> FALSE])
    /\ UNCHANGED <<tokens, users, reservations, kitchens, appliances>>

\* what the door, its camera and its clock are made to present
V1 == <<1, 0>>
V2 == <<0, 1>>
Embeddings == {V1, V2}
Instant(day, hour, minute, second) ==
    [year |-> 2026, month |-> 11, day |-> day,
     hour |-> hour, minute |-> minute, second |-> second]
Clock == {Instant(4, 10, 0, 59), Instant(4, 10, 1, 0), Instant(4, 10, 1, 30),
          Instant(4, 10, 2, 0), Instant(4, 10, 2, 1), Instant(5, 10, 1, 30)}
AccessIntervals == {<<T1, T2>>}
AccessTargets == {<<1, Oven1>>}

(***************************************************************************)
(* The system.                                                             *)
(***************************************************************************)
Init ==
    /\ tokens = <<>>
    /\ users = {}
    /\ reservations = {}
    /\ kitchens = ProvisionKitchens({}, 1)
    /\ appliances = ProvisionFloors({}, 1)
    /\ request = [op |-> "startup"]
    /\ response = Ok(None)
    /\ before = {}

Login == \E isic \in LoginIsics : login(isic)

CreateReservationOf(intervals, targets) ==
    \E date \in ReqDates, interval \in intervals, target \in targets,
       token \in ReqTokens :
        create_reservation(date, interval[1], interval[2], target[1], target[2], token)

CreateReservation == CreateReservationOf(ReqIntervals, ReqTargets)

CancelReservation ==
    \E reservation_id \in {r.id : r \in reservations} \cup {UnknownId},
       token \in ReqTokens :
        cancel_reservation(reservation_id, token)

Next ==
    \/ Login
    \/ CreateReservation
    \/ CancelReservation

Spec == Init /\ [][Next]_vars

\* the life of a reservation: two overlapping slots of one appliance, named
\* with its own kitchen and with another one
LifeIntervals == {<<T0, T1>>, <<T0, T2>>}
LifeTargets == {<<1, Oven1>>, <<2, Oven1>>}

NextLife ==
    \/ Login
    \/ CreateReservationOf(LifeIntervals, LifeTargets)
    \/ CancelReservation

SpecLife == Init /\ [][NextLife]_vars

EnrollFace ==
    \E isic \in Isics, embedding \in Embeddings \cup {None} :
        enroll_face(isic, embedding)

EspCheck ==
    \E embedding \in Embeddings \cup {None}, rows \in ScanOrders, now \in Clock :
        esp_check(embedding, rows, now)

\* the door: enrolment and the access check, over bookings of one slot
NextAccess ==
    \/ Login
    \/ EnrollFace
    \/ CreateReservationOf(AccessIntervals, AccessTargets)
    \/ CancelReservation
    \/ EspCheck

SpecAccess == Init /\ [][NextAccess]_vars

(***************************************************************************)
(* Vocabulary of the properties.                                           *)
(***************************************************************************)
IsOk(resp) == resp.status_code = 200
IsConflict(resp) == resp = HTTPException(400, "Time slot already reserved")
IsInvalidAppliance(resp) == resp = HTTPException(400, "Invalid appliance")

\* [s1,e1) and [s2,e2) overlap iff s1 < e2 and s2 < e1
Overlap(s1, e1, s2, e2) == TextLess(s1, e2) /\ TextLess(s2, e1)

IsCreate(req) == req.op = "create_reservation"
IsCancel(req) == req.op = "cancel_reservation"

\* the confirmed reservations of `table` on an appliance and date that overlap [s,e)
Overlapping(table, applianceId, date, s, e) ==
    {r \in table :
        /\ r.status = "confirmed"
        /\ r.appliance_id = applianceId
        /\ r.date = date
        /\ Overlap(r.start_time, r.end_time, s, e)}

ApplianceExists(applianceId) == \E a \in appliances : a.id = applianceId

ApplianceInKitchen(applianceId, kitchenId) ==
    \E a \in appliances : a.id = applianceId /\ a.kitchen_id = kitchenId

SameSlot(r1, r2) ==
    /\ r1.applianceId = r2.applianceId
    /\ r1.date = r2.date
    /\ r1.startTime = r2.startTime
    /\ r1.endTime = r2.endTime

(***************************************************************************)
(* C1: in every reachable state no two confirmed reservations of the same  *)
(* appliance and date have overlapping intervals.                          *)
(***************************************************************************)
C1_NoOverlap ==
    \A r1 \in reservations, r2 \in reservations :
        (/\ r1 # r2
         /\ r1.status = "confirmed" /\ r2.status = "confirmed"
         /\ r1.appliance_id = r2.appliance_id
         /\ r1.date = r2.date)
        => ~Overlap(r1.start_time, r1.end_time, r2.start_time, r2.end_time)

\* what the conflict query does keep apart: confirmed reservations that were
\* stored under the same kitchen id
C1_NoOverlapPerKitchen ==
    \A r1 \in reservations, r2 \in reservations :
        (/\ r1 # r2
         /\ r1.status = "confirmed" /\ r2.status = "confirmed"
         /\ r1.appliance_id = r2.appliance_id
         /\ r1.kitchen_id = r2.kitchen_id
         /\ r1.date = r2.date)
        => ~Overlap(r1.start_time, r1.end_time, r2.start_time, r2.end_time)

(***************************************************************************)
(* C2: of two booking requests for the same interval, appliance and date   *)
(* that are handled back to back (both with a session, the appliance in    *)
(* the kitchen each request names, start < end, the slot free when the     *)
(* first one arrives), exactly one succeeds and the other one is answered  *)
(* with the conflict error.                                                *)
(***************************************************************************)
C2_ExactlyOneSucceeds ==
    [][(/\ IsCreate(request) /\ IsCreate(request')
        /\ SameSlot(request, request')
        /\ verify_token(request.token) # None
        /\ verify_token(request'.token) # None
        /\ ApplianceInKitchen(request.applianceId, request.kitchenId)
        /\ ApplianceInKitchen(request'.applianceId, request'.kitchenId)
        /\ TextLess(request.startTime, request.endTime)
        /\ Overlapping(before, request.applianceId, request.date,
                       request.startTime, request.endTime) = {})
       => \/ IsOk(response) /\ IsConflict(response')
          \/ IsConflict(response) /\ IsOk(response')]_vars

(***************************************************************************)
(* C3: a booking request with a session, an appliance of the catalog and   *)
(* start < end is answered with the conflict error exactly when a          *)
(* confirmed reservation [s,e) of that appliance and date has s < end and  *)
(* start < e.                                                              *)
(***************************************************************************)
C3_ConflictIffOverlap ==
    (/\ IsCreate(request)
     /\ verify_token(request.token) # None
     /\ ApplianceExists(request.applianceId)
     /\ TextLess(request.startTime, request.endTime))
    => (IsConflict(response)
        <=> Overlapping(before, request.applianceId, request.date,
                        request.startTime, request.endTime) # {})

(***************************************************************************)
(* C4: right after the owner has cancelled a reservation, a booking        *)
(* request for the same date, start, end, appliance and kitchen, made with *)
(* any session while no confirmed reservation overlaps the slot, succeeds  *)
(* and stores a confirmed reservation of the requester.                    *)
(***************************************************************************)
C4_RebookAfterCancel ==
    [][(/\ IsCancel(request) /\ IsOk(response)
        /\ IsCreate(request')
        /\ verify_token(request'.token) # None
        /\ \E c \in reservations :
             /\ c.id = request.reservation_id
             /\ request'.date = c.date
             /\ request'.startTime = c.start_time
             /\ request'.endTime = c.end_time
             /\ request'.applianceId = c.appliance_id
             /\ request'.kitchenId = c.kitchen_id
        /\ Overlapping(reservations, request'.applianceId, request'.date,
                       request'.startTime, request'.endTime) = {})
       => /\ IsOk(response')
          /\ \E r \in reservations' :
               /\ r.status = "confirmed"
               /\ r.isic_number = verify_token(request'.token)
               /\ r.date = request'.date
               /\ r.start_time = request'.startTime
               /\ r.end_time = request'.endTime
               /\ r.appliance_id = request'.applianceId]_vars

(***************************************************************************)
(* C6: a booking request with start >= end is rejected and leaves the      *)
(* reservations as they were.                                              *)
(***************************************************************************)
C6_StartNotBeforeEndRejected ==
    (IsCreate(request) /\ ~TextLess(request.startTime, request.endTime))
    => (~IsOk(response) /\ reservations = before)

(***************************************************************************)
(* C7: a booking request with a session whose appliance is not in the      *)
(* catalog, or is in another kitchen than the kitchenId of the request, is *)
(* answered with the invalid-appliance error; and the kitchen id of every  *)
(* stored reservation is the kitchen of its appliance.                     *)
(***************************************************************************)
C7_ApplianceOfKitchen ==
    /\ (/\ IsCreate(request)
        /\ verify_token(request.token) # None
        /\ ~ApplianceInKitchen(request.applianceId, request.kitchenId))
       => IsInvalidAppliance(response)
    /\ \A r \in reservations : ApplianceInKitchen(r.appliance_id, r.kitchen_id)

(***************************************************************************)
(* C5: for a probe that resolves to identity I at instant now, esp_check   *)
(* answers authorized = true exactly when a confirmed reservation of I has *)
(* date = today(now) and start <= timeOfDay(now) <= end, the time of day   *)
(* taken to the second (true at the exact start and end, false one second  *)
(* before the start and one second after the end).                         *)
(***************************************************************************)
\* the seconds since midnight of an "HH:MM" text and of an instant
ClockSeconds(t) ==
    ((t[1] - 48) * 10 + (t[2] - 48)) * 3600 + ((t[4] - 48) * 10 + (t[5] - 48)) * 60
TimeOfDay(now) == now.hour * 3600 + now.minute * 60 + now.second

IsEspCheck(req) == req.op = "esp_check"
Resolved(req) ==
    IF req.embedding = None THEN None
    ELSE find_matching_user(req.rows, req.embedding, Threshold)

C5_AccessDecision ==
    (IsEspCheck(request) /\ Resolved(request) # None)
    => (response = Ok([authorized |-> TRUE])
        <=> \E r \in reservations :
              /\ r.status = "confirmed"
              /\ r.isic_number = Resolved(request)
              /\ r.date = StrfDate(request.now)
              /\ ClockSeconds(r.start_time) <= TimeOfDay(request.now)
              /\ TimeOfDay(request.now) <= ClockSeconds(r.end_time))

(***************************************************************************)
(* C8: a cancel request made with the session of an identity that does not *)
(* own the reservation is rejected, and the reservation keeps the status   *)
(* it had.                                                                 *)
(***************************************************************************)
\* the reservations the cancel request names that its session does not own
NotOwned(req, table) ==
    {r \in table : r.id = req.reservation_id /\ r.isic_number # verify_token(req.token)}

C8_OnlyOwnerCancels ==
    (IsCancel(request) /\ verify_token(request.token) # None)
    => \A r \in NotOwned(request, before) :
          /\ response = HTTPException(403, "Not your reservation")
          /\ r \in reservations

\* a session of one identity has asked to cancel a confirmed reservation of another
C8_Witness ==
    /\ IsCancel(request)
    /\ verify_token(request.token) # None
    /\ \E r \in NotOwned(request, before) : r.status = "confirmed"

(***************************************************************************)
(* C9: the owner's cancel of a reservation that is cancelled already is    *)
(* answered with success and leaves the reservations table as it was.      *)
(***************************************************************************)
\* the cancelled reservations of its own that the cancel request names
OwnCancelled(req, table) ==
    {r \in table : /\ r.id = req.reservation_id
                   /\ r.isic_number = verify_token(req.token)
                   /\ r.status = "cancelled"}

C9_CancelTwice ==
    (IsCancel(request) /\ OwnCancelled(request, before) # {})
    => (IsOk(response) /\ reservations = before)

\* the owner has asked to cancel a reservation that was cancelled before
C9_Witness == IsCancel(request) /\ OwnCancelled(request, before) # {}

(***************************************************************************)
(* C10: no step removes a reservation or changes anything of it but its    *)
(* status, and the status only ever goes from confirmed to cancelled: a    *)
(* cancelled reservation stays cancelled, a new one starts confirmed.      *)
(***************************************************************************)
C10_OneWayStatus ==
    [][/\ \A r \in reservations :
            \/ r \in reservations'
            \/ /\ r.status = "confirmed"
               /\ [r EXCEPT !.status = "cancelled"] \in reservations'
       /\ \A r \in reservations' :
            \/ r \in reservations
            \/ r.status = "confirmed" /\ (\A o \in reservations : o.id # r.id)
            \/ /\ r.status = "cancelled"
               /\ [r EXCEPT !.status = "confirmed"] \in reservations]_vars

\* a booking request has named the id of a cancelled reservation, which is still
\* there and still cancelled
C10_Witness ==
    /\ IsCreate(request)
    /\ \E r \in reservations :
         /\ r.status = "cancelled"
         /\ r \in before
         /\ r.id = ReservationId(verify_token(request.token), request.date,
                                 request.startTime, request.endTime)

(***************************************************************************)
(* The matcher on its own: every gallery of up to two enrolled identities, *)
(* every probe and every threshold of the sets below.                      *)
(***************************************************************************)
MatchVectors == {<<1, 0>>, <<0, 1>>, <<-1, 0>>, <<1, 1>>, <<0, 0>>}
MatchThresholds ==
    {Similarity(-1, 2), Similarity(0, 1), Threshold, Similarity(1, 1),
     Similarity(6, 5)}

\* a users row as login and enroll_face insert it, holding the embedding
UserRow(isic, embedding) ==
    [isic_number |-> isic, name |-> DefaultName(isic),
     face_embedding |-> embedding, theme_palette |-> "pink",
     theme_dark_mode |-> FALSE]

\* the users tables in which some of Isics are enrolled
EnrolledUsers ==
    {{UserRow(isic, f[isic]) : isic \in DOMAIN f} :
        f \in UNION {[S -> MatchVectors] : S \in SUBSET Isics}}

InitMatch ==
    /\ tokens = <<>>
    /\ users \in EnrolledUsers
    /\ reservations = {}
    /\ kitchens = ProvisionKitchens({}, 1)
    /\ appliances = ProvisionFloors({}, 1)
    /\ request = [op |-> "startup"]
    /\ response = Ok(None)
    /\ before = {}

FindMatchingUser ==
    \E rows \in ScanOrders, embedding \in MatchVectors,
       threshold \in MatchThresholds :
        /\ request' = [op |-> "find_matching_user", rows |-> rows,
                       embedding |-> embedding, threshold |-> threshold]
        /\ response' = Ok(find_matching_user(rows, embedding, threshold))
        /\ before' = reservations
        /\ UNCHANGED <<tokens, users, reservations, kitchens, appliances>>

NextMatch == FindMatchingUser

SpecMatch == InitMatch /\ [][NextMatch]_vars

(***************************************************************************)
(* C11: find_matching_user returns an enrolled identity whose similarity   *)
(* to the probe is the maximum over the gallery when that maximum is at    *)
(* least the threshold, and no match otherwise.                            *)
(***************************************************************************)
IsMatch(req) == req.op = "find_matching_user"

\* the similarities of the probe to the rows the request scanned
Similarities(req) ==
    {cosine_similarity(req.embedding, req.rows[i][2]) : i \in DOMAIN req.rows}

\* the identities of the scanned rows that are as similar as any
MostSimilar(req) ==
    {req.rows[i][1] : i \in
        {j \in DOMAIN req.rows :
            \A x \in Similarities(req) :
                ~SimLess(cosine_similarity(req.embedding, req.rows[j][2]), x)}}

MaximumReaches(req) ==
    \E x \in Similarities(req) :
        /\ \A y \in Similarities(req) : ~SimLess(x, y)
        /\ ~SimLess(x, req.threshold)

C11_MaximumOrNoMatch ==
    IsMatch(request)
    => IF MaximumReaches(request)
       THEN response.body \in MostSimilar(request)
       ELSE response.body = None

\* the same, for the thresholds above 0 only
C11_PositiveThreshold ==
    (IsMatch(request) /\ SimLess(<<0, 1>>, request.threshold))
    => IF MaximumReaches(request)
       THEN response.body \in MostSimilar(request)
       ELSE response.body = None

\* a probe of similarity 1 to an enrolled vector and a threshold <= 1
C11_SameVector ==
    (/\ IsMatch(request)
     /\ ~SimLess(<<1, 1>>, request.threshold)
     /\ \E x \in Similarities(request) : x[1] = x[2])
    => response.body \in MostSimilar(request)

(***************************************************************************)
(* POST /face/verify                                                       *)
(***************************************************************************)
verify_face(embedding, rows) ==
    LET matched_isic == find_matching_user(rows, embedding, Threshold)
        result == UserRows(matched_isic)
    IN
    /\ request' = [op |-> "verify_face", embedding |-> embedding, rows |-> rows]
    /\ before' = reservations
    /\ IF embedding = None
       THEN /\ response' = HTTPException(400, "Face processing error")
            /\ UNCHANGED tokens
       ELSE IF matched_isic = None
       THEN /\ response' = HTTPException(401, "Face not recognized")
            /\ UNCHANGED tokens
       ELSE /\ FreshToken <= MaxTokens
            /\ generate_token(FreshToken, matched_isic)
            /\ response' = Ok([token |-> FreshToken, isic |-> matched_isic])
    /\ UNCHANGED <<users, reservations, kitchens, appliances>>

VerifyFace ==
    \E embedding \in Embeddings \cup {None}, rows \in ScanOrders :
        verify_face(embedding, rows)

\* the sessions: both ways to a token, and the requests that present one
NextSession ==
    \/ Login
    \/ EnrollFace
    \/ VerifyFace
    \/ CreateReservationOf(AccessIntervals, AccessTargets)
    \/ CancelReservation

SpecSession == Init /\ [][NextSession]_vars

(***************************************************************************)
(* C12: verify_token returns, for every token issued so far, the identity  *)
(* it was issued for, and invalid for every token never issued; no step    *)
(* removes an issued token or binds it to another identity.                *)
(***************************************************************************)
\* the request answered by a token, and the identity the token is issued for
IssuesToken(req, resp) ==
    req.op \in {"login", "verify_face"} /\ IsOk(resp)

C12_TokensKept ==
    [][/\ \A t \in DOMAIN tokens :
            verify_token(t)' = verify_token(t) /\ verify_token(t) # None
       /\ \A t \in ReqTokens \ DOMAIN tokens :
            /\ verify_token(t) = None
            /\ verify_token(t)' # None
               => /\ IssuesToken(request', response')
                  /\ response'.body.token = t
                  /\ verify_token(t)' = response'.body.isic
                  /\ request'.op = "login" => verify_token(t)' = request'.isic
       /\ IssuesToken(request', response')
            => /\ response'.body.token \notin DOMAIN tokens
               /\ response'.body.token \in DOMAIN tokens'
               /\ tokens'[response'.body.token] = response'.body.isic]_vars

\* two tokens are issued, for different identities, one of them by the face
C12_Witness ==
    /\ request.op = "verify_face"
    /\ IsOk(response)
    /\ \E t \in DOMAIN tokens : verify_token(t) # verify_token(response.body.token)

(***************************************************************************)
(* C13: a booking or cancellation request whose token was never issued is  *)
(* answered 401 "Invalid token" and changes neither the reservations table *)
(* nor the tokens.                                                         *)
(***************************************************************************)
IsUnauthorized(resp) == resp = HTTPException(401, "Invalid token")

C13_UnknownTokenDenied ==
    [][((IsCreate(request') \/ IsCancel(request'))
            /\ request'.token \notin DOMAIN tokens)
       => /\ IsUnauthorized(response')
          /\ reservations' = reservations
          /\ tokens' = tokens]_vars

\* a token that was never issued has asked to cancel a confirmed reservation
C13_Witness ==
    /\ IsCancel(request)
    /\ request.token \notin DOMAIN tokens
    /\ IsUnauthorized(response)
    /\ \E r \in reservations :
         r.id = request.reservation_id /\ r.status = "confirmed"

(***************************************************************************)
(* GET /availability                                                       *)
(*                                                                         *)
(* Neither SELECT has an ORDER BY.  A list of the answer is kept as the    *)
(* bag of its entries: what it holds and how many times, not in what order.*)
(***************************************************************************)
\* SELECT appliance_id, start_time, end_time FROM reservations WHERE date = ?
\* AND kitchen_id = ? AND status = 'confirmed', of the reservations table `table`
ReservationsOn(table, date, kitchen) ==
    {r \in table :
        r.date = date /\ r.kitchen_id = kitchen /\ r.status = "confirmed"}

\* the dict appended per row with every field of the row it could name
OwnedReservationEntry(res) ==
    [id |-> res.id, startTime |-> res.start_time,
     endTime |-> res.end_time, userId |-> res.isic_number]

\* the dict appended per row: "id" is res[0], the appliance id
ReservationEntry(res) ==
    [id |-> res.appliance_id, startTime |-> res.start_time,
     endTime |-> res.end_time, userId |-> 1]

\* appliance_reservations.get(app_id, []) after the grouping loop
ApplianceReservations(rows, app_id) ==
    LET group == {r \in rows : r.appliance_id = app_id}
    IN [e \in {ReservationEntry(r) : r \in group} |->
           Cardinality({r \in group : ReservationEntry(r) = e})]

\* the answer of get_availability over the reservations table `table`
Availability(table, date, kitchen) ==
    LET apps == {a \in appliances : a.kitchen_id = kitchen}
        rows == ReservationsOn(table, date, kitchen)
        appliances_list ==
            SetToBag({[applianceId |-> app.id, applianceType |-> app.type,
                       applianceName |-> app.name,
                       reservations |-> ApplianceReservations(rows, app.id)] :
                          app \in apps})
    IN [date |-> date, kitchenId |-> kitchen,
        operatingHours |-> [start |-> "06:00", end |-> "23:00"],
        minDuration |-> 5, maxDuration |-> 120,
        appliances |-> appliances_list,
        totalReservations |-> Cardinality(rows)]

get_availability(date, kitchen) ==
    /\ request' = [op |-> "get_availability", date |-> date, kitchen |-> kitchen]
    /\ before' = reservations
    /\ response' = Ok(Availability(reservations, date, kitchen))
    /\ UNCHANGED <<tokens, users, reservations, kitchens, appliances>>

Tomorrow == YearMonthDay(2026, 11, 5)
Stove1 == ApplianceId(1, "stove_left", 3)
BookIntervals == {<<T0, T1>>}
AvailTargets == {<<2, Oven1>>, <<1, Stove1>>}

GetAvailability ==
    \E date \in {Today, Tomorrow}, kitchen \in {1, 2} :
        get_availability(date, kitchen)

\* bookings of two appliances, and the availability of their kitchen
NextAvail ==
    \/ Login
    \/ CreateReservationOf(LifeIntervals, AccessTargets)
    \/ CreateReservationOf(BookIntervals, AvailTargets)
    \/ CancelReservation
    \/ GetAvailability

SpecAvail == Init /\ [][NextAvail]_vars

(***************************************************************************)
(* C14: the availability of kitchen K on date D lists every appliance of K *)
(* exactly once, and with each appliance exactly the confirmed             *)
(* reservations of that appliance on date D: none is missing, no cancelled *)
(* one is listed, an appliance without any has the empty list.             *)
(***************************************************************************)
IsAvailability(req) == req.op = "get_availability"

\* how many times the answer lists the appliance
TimesListed(resp, app_id) ==
    LET listed == {e \in BagToSet(resp.body.appliances) : e.applianceId = app_id}
    IN IF listed = {} THEN 0
       ELSE BagCardinality([e \in listed |-> resp.body.appliances[e]])

\* the slots <<start, end>> the answer lists with the appliance
SlotsListed(resp, app_id) ==
    UNION {{<<x.startTime, x.endTime>> : x \in BagToSet(e.reservations)} :
              e \in {y \in BagToSet(resp.body.appliances) : y.applianceId = app_id}}

\* the slots of the confirmed reservations the table holds of the appliance
ConfirmedSlots(table, app_id, date) ==
    {<<r.start_time, r.end_time>> :
        r \in {x \in table : /\ x.appliance_id = app_id
                             /\ x.date = date
                             /\ x.status = "confirmed"}}

C14_AvailabilityComplete ==
    IsAvailability(request)
    => /\ \A a \in appliances :
            TimesListed(response, a.id)
                = IF a.kitchen_id = request.kitchen THEN 1 ELSE 0
       /\ \A a \in {x \in appliances : x.kitchen_id = request.kitchen} :
            SlotsListed(response, a.id)
                = ConfirmedSlots(reservations, a.id, request.date)

\* the same where every reservation is stored with the kitchen of its appliance
C14_WithinKitchen ==
    (/\ IsAvailability(request)
     /\ \A r \in reservations : ApplianceInKitchen(r.appliance_id, r.kitchen_id))
    => /\ \A a \in appliances :
            TimesListed(response, a.id)
                = IF a.kitchen_id = request.kitchen THEN 1 ELSE 0
       /\ \A a \in {x \in appliances : x.kitchen_id = request.kitchen} :
            SlotsListed(response, a.id)
                = ConfirmedSlots(reservations, a.id, request.date)

(***************************************************************************)
(* Bookings of two appliances of one kitchen and of an appliance that does *)
(* not exist.                                                              *)
(***************************************************************************)
BookTargets == {<<1, Stove1>>, <<1, "k9-oven3">>}

NextBooking ==
    \/ Login
    \/ CreateReservationOf(LifeIntervals, AccessTargets)
    \/ CreateReservationOf(BookIntervals, BookTargets)
    \/ CancelReservation

SpecBooking == Init /\ [][NextBooking]_vars

(***************************************************************************)
(* C15: a booking request rejected for a conflict or for an unknown        *)
(* appliance leaves the reservations table as it found it.                 *)
(***************************************************************************)
C15_RejectedPersistsNothing ==
    (IsCreate(request) /\ (IsConflict(response) \/ IsInvalidAppliance(response)))
    => reservations = before

\* a request was rejected for a conflict with a reservation of another identity
C15_Witness ==
    /\ IsCreate(request)
    /\ IsConflict(response)
    /\ \E r \in before :
         /\ r.isic_number # verify_token(request.token)
         /\ r.status = "confirmed"
         /\ r.appliance_id = request.applianceId

\* a request for an appliance that does not exist was rejected
C15_UnknownApplianceSeen ==
    /\ IsCreate(request)
    /\ IsInvalidAppliance(response)
    /\ before # {}

(***************************************************************************)
(* C16: no two rows of the reservations table, whatever their status or    *)
(* appliance, have the same identity, date, start and end; a booking by an *)
(* identity that has a row with the request's date, start and end on       *)
(* another appliance creates no reservation.                               *)
(***************************************************************************)
\* the rows of the table with the identity, date, start and end of the request
SameKey(req, table) ==
    {r \in table : /\ r.isic_number = verify_token(req.token)
                   /\ r.date = req.date
                   /\ r.start_time = req.startTime
                   /\ r.end_time = req.endTime}

C16_OnePerIdentityAndSlot ==
    /\ \A r1, r2 \in reservations :
          (/\ r1.isic_number = r2.isic_number
           /\ r1.date = r2.date
           /\ r1.start_time = r2.start_time
           /\ r1.end_time = r2.end_time) => r1 = r2
    /\ (/\ IsCreate(request)
        /\ \E r \in SameKey(request, before) :
              r.appliance_id # request.applianceId)
       => (~IsOk(response) /\ reservations = before)

\* an identity holding a confirmed reservation of one appliance has asked for
\* another appliance, which exists and is free, with the same date, start and end
C16_Witness ==
    /\ IsCreate(request)
    /\ ApplianceExists(request.applianceId)
    /\ ~IsConflict(response)
    /\ \E r \in SameKey(request, before) :
          r.appliance_id # request.applianceId /\ r.status = "confirmed"

(***************************************************************************)
(* C17: a cancel request for a reservation id that does not exist and a    *)
(* cancel request for a reservation of another identity are answered with  *)
(* different errors: the second with the not-owner error, the first with   *)
(* an error that is not the not-owner error.                               *)
(***************************************************************************)
IsNotOwner(resp) == resp = HTTPException(403, "Not your reservation")

\* the cancel request of a session names no row of the table
NamesNoReservation(req, table) ==
    /\ IsCancel(req)
    /\ verify_token(req.token) # None
    /\ \A r \in table : r.id # req.reservation_id

C17_NotFoundIsNotNotOwner ==
    /\ (IsCancel(request) /\ verify_token(request.token) # None
            /\ NotOwned(request, before) # {})
       => IsNotOwner(response)
    /\ NamesNoReservation(request, before)
       => (~IsOk(response) /\ ~IsNotOwner(response))

\* the part of it about the reservation of another identity
C17_NotOwnerAnswer ==
    (IsCancel(request) /\ verify_token(request.token) # None
        /\ NotOwned(request, before) # {})
    => IsNotOwner(response)

(***************************************************************************)
(* C18: availability does not tell whose a reservation is.  The answer for *)
(* any kitchen and date is the answer the query gives over any table that  *)
(* differs from the reservations table only in the identities that own the *)
(* reservations.                                                           *)
(***************************************************************************)
Identities == Isics \cup {Isic(3)}

\* the table with the reservation r given to the identity owner[r]
Reowned(table, owner) ==
    {[r EXCEPT !.isic_number = owner[r],
               !.id = ReservationId(owner[r], r.date, r.start_time, r.end_time)] :
        r \in table}

\* the tables that differ from `table` in owners only: as many rows, no two
\* of one id
OwnerVariants(table) ==
    {t \in {Reowned(table, owner) : owner \in [table -> Identities]} :
        /\ Cardinality(t) = Cardinality(table)
        /\ \A r1, r2 \in t : r1.id = r2.id => r1 = r2}

C18_OwnersNotRevealed ==
    IsAvailability(request)
    => \A t \in OwnerVariants(reservations) :
          response.body = Availability(t, request.date, request.kitchen)

\* the query has listed a reservation while the table held reservations of two
\* identities
C18_Witness ==
    /\ IsAvailability(request)
    /\ response.body.totalReservations > 0
    /\ \E r1, r2 \in reservations : r1.isic_number # r2.isic_number
    /\ Cardinality(OwnerVariants(reservations)) > 1

(***************************************************************************)
(* Startup.  The tables are in the file database.duckdb and outlive the    *)
(* process; tokens is a dict of the process and starts empty with it.      *)
(***************************************************************************)
\* init_db with CREATE OR REPLACE TABLE in the place of CREATE TABLE IF NOT
\* EXISTS
InitDbReplacingTables ==
    /\ users' = {}
    /\ reservations' = {}
    /\ kitchens' = ProvisionKitchens({}, 1)
    /\ appliances' = ProvisionFloors({}, 1)

\* CREATE TABLE IF NOT EXISTS leaves a table that exists as it is; the loop
\* inserts what is absent
init_db ==
    /\ UNCHANGED <<users, reservations>>
    /\ kitchens' = ProvisionKitchens(kitchens, 1)
    /\ appliances' = ProvisionFloors(appliances, 1)

\* @app.on_event("startup") of a new process
startup ==
    /\ request' = [op |-> "startup"]
    /\ before' = reservations
    /\ tokens' = <<>>
    /\ init_db
    /\ response' = Ok(None)

\* the database file before the first startup: no table has a row
InitInstalled ==
    /\ tokens = <<>>
    /\ users = {}
    /\ reservations = {}
    /\ kitchens = {}
    /\ appliances = {}
    /\ request = [op |-> "import"]
    /\ response = Ok(None)
    /\ before = {}

\* requests are served once the startup hook has run
Started == request.op # "import"

NextProvision ==
    \/ startup
    \/ Started /\ Login
    \/ Started /\ EnrollFace
    \/ Started /\ CreateReservationOf(BookIntervals, AccessTargets)
    \/ Started /\ CancelReservation

SpecProvision == InitInstalled /\ [][NextProvision]_vars

(***************************************************************************)
(* C19: init_db, run in any state any number of times, leaves the kitchens *)
(* and appliances one run leaves: 7 kitchens of 5 appliances each, every   *)
(* appliance in exactly one kitchen; it leaves users and reservations as   *)
(* they are.                                                               *)
(***************************************************************************)
\* 7 kitchens, 5 appliances in each, every appliance in exactly one kitchen
IsCatalog(ks, apps) ==
    /\ Cardinality(ks) = 7
    /\ \A k \in ks : Cardinality({a \in apps : a.kitchen_id = k.id}) = 5
    /\ \A a \in apps : Cardinality({k \in ks : k.id = a.kitchen_id}) = 1
    /\ \A a1, a2 \in apps : a1.id = a2.id => a1 = a2
    /\ \A k1, k2 \in ks : k1.id = k2.id => k1 = k2

C19_ProvisioningIdempotent ==
    [][request'.op = "startup"
       => /\ IsCatalog(kitchens', appliances')
          /\ Started => (kitchens' = kitchens /\ appliances' = appliances)
          /\ users' = users
          /\ reservations' = reservations]_vars

\* the server has started again over a database that holds an identity and a
\* reservation
C19_Witness ==
    /\ request.op = "startup"
    /\ users # {}
    /\ reservations # {}
    /\ IsCatalog(kitchens, appliances)

(***************************************************************************)
(* PUT /user/theme                                                         *)
(***************************************************************************)
update_theme(theme_palette, theme_dark_mode, token) ==
    LET isic == verify_token(token)
        result == UserRows(isic)
    IN
    /\ request' = [op |-> "update_theme", theme_palette |-> theme_palette,
                   theme_dark_mode |-> theme_dark_mode, token |-> token]
    /\ before' = reservations
    /\ IF isic = None
       THEN /\ response' = HTTPException(401, "Invalid token")
            /\ UNCHANGED users
       ELSE /\ users' =
                 {IF u.isic_number = isic
                  THEN [u EXCEPT !.theme_palette = theme_palette,
                                 !.theme_dark_mode = theme_dark_mode]
                  ELSE u : u \in users}
            /\ response' =
                 Ok([isic |-> isic,
                     name |-> IF result = {} THEN DefaultName(isic)
                              ELSE (CHOOSE u \in result : TRUE).name,
                     face_enrolled |->
                         \E u \in result : u.face_embedding # None,
                     theme_palette |-> theme_palette,
                     theme_dark_mode |-> theme_dark_mode])
    /\ UNCHANGED <<tokens, reservations, kitchens, appliances>>

UpdateTheme ==
    \E theme_palette \in {"pink", "blue"}, theme_dark_mode \in BOOLEAN,
       token \in ReqTokens :
        update_theme(theme_palette, theme_dark_mode, token)

\* the users table: logins, enrolments and preferences, beside a booking
NextEnroll ==
    \/ Login
    \/ EnrollFace
    \/ UpdateTheme
    \/ CreateReservationOf(BookIntervals, AccessTargets)

SpecEnroll == Init /\ [][NextEnroll]_vars

(***************************************************************************)
(* C20: an enrolment of the vector V for the identity I leaves one users   *)
(* row of I, holding V, with the name and the theme the row of I had if    *)
(* there was one; it leaves every other users row, the reservations and    *)
(* the tokens as they were.                                                *)
(***************************************************************************)
IsEnrolled(req, resp) == req.op = "enroll_face" /\ IsOk(resp)

C20_EnrollFrame ==
    [][IsEnrolled(request', response')
       => /\ \E u \in users' :
               /\ u.isic_number = request'.isic
               /\ u.face_embedding = request'.embedding
               /\ \A o \in users' : o.isic_number = request'.isic => o = u
          /\ \A u \in users :
               IF u.isic_number = request'.isic
               THEN [u EXCEPT !.face_embedding = request'.embedding] \in users'
               ELSE u \in users'
          /\ \A u \in users' : u.isic_number # request'.isic => u \in users
          /\ reservations' = reservations
          /\ tokens' = tokens]_vars

\* a vector has been enrolled for an identity that had chosen a theme, beside
\* another enrolled identity, a reservation and a session
C20_Witness ==
    /\ IsEnrolled(request, response)
    /\ \E u \in users : u.isic_number = request.isic /\ u.theme_palette = "blue"
    /\ \E u \in users : u.isic_number # request.isic /\ u.face_embedding # None
    /\ reservations # {}
    /\ tokens # <<>>

(***************************************************************************)
(* C21: a successful cancel changes the status of the reservation it names *)
(* and nothing else: the owner, kitchen, appliance, date, start and end of *)
(* that reservation and every field of every other reservation are after   *)
(* the cancel what they were before it.                                    *)
(***************************************************************************)
C21_CancelFrame ==
    [][(IsCancel(request') /\ IsOk(response'))
       => \E r \in reservations :
             /\ r.id = request'.reservation_id
             /\ reservations' =
                  (reservations \ {r}) \cup {[r EXCEPT !.status = "cancelled"]}]_vars

\* an identity with two confirmed reservations has cancelled one of them; the
\* other is still there, confirmed
C21_Witness ==
    /\ IsCancel(request)
    /\ IsOk(response)
    /\ \E r \in before, o \in before :
         /\ r.id = request.reservation_id
         /\ r.status = "confirmed"
         /\ o.id # r.id
         /\ o.isic_number = r.isic_number
         /\ o.status = "confirmed"
         /\ o \in reservations
         /\ [r EXCEPT !.status = "cancelled"] \in reservations

====
